---- MODULE Spec2Model ----
(***************************************************************************)
(* nodecli-to-api: the init-demo command line tool (init-demo.js) and the  *)
(* Express server (server.js) that runs it as a child process for GET /.   *)
(*                                                                         *)
(* Text (file content, stream output, paths) is a sequence of chunks: a    *)
(* chunk is a piece of text that the program never splits.                 *)
(***************************************************************************)
EXTENDS Integers, Sequences, FiniteSets, TLC

\* ------------------------------------------------------------------ bounds
MaxLen == 2    \* chunks in a file's content
MaxReq == 2    \* GET / requests issued to the server
MaxProc == 2   \* init-demo.js processes started, by the server or from a shell

Reqs == 1..MaxReq
Pids == 1..MaxProc

NL == "\n"
SampleLine == "This is a sample demo file."
BadByte == "<0xFF>"       \* a byte sequence that is not valid UTF-8
Replacement == "<U+FFFD>" \* what the utf8 decoder yields for it
Chunk == {SampleLine, NL, BadByte}

RECURSIVE SeqsUpTo(_, _)
SeqsUpTo(S, n) ==
  IF n = 0 THEN {<<>>}
  ELSE LET shorter == SeqsUpTo(S, n - 1)
       IN shorter \cup {Append(s, c) : s \in {t \in shorter : Len(t) = n - 1}, c \in S}

Contents == SeqsUpTo(Chunk, MaxLen)

\* t occurs in s as a contiguous run
Contains(s, t) ==
  \E i \in 1..(Len(s) - Len(t) + 1) : SubSeq(s, i, i + Len(t) - 1) = t

\* ------------------------------------------------------------------- paths
ServerCwd == <<"/", "usr", "/", "src", "/", "app">>
OtherCwd == <<"/", "tmp">>

NoFlag == <<"undefined">>   \* options.file when no -f was given
SampleArg == <<"sample.txt">>
MissingArg == <<"missing.txt">>
SamplePath == <<"/", "usr", "/", "src", "/", "app", "/", "sample.txt">>

\* Command lines are sequences of words, each word a text.  Only command
\* lines that commander's parse() returns from are run: no flag at all, or
\* -f / --file followed by a value (possibly the empty string).
CliArgvs ==
  { <<>>,
    << <<"-f">>, <<>> >>,
    << <<"-f">>, SampleArg >>,
    << <<"--file">>, MissingArg >>,
    << <<"-f">>, SamplePath >> }

\* the shell invocations run: every command line in the server's directory,
\* the two that name the sample file in another directory as well
CliRuns ==
  {[argv |-> a, cwd |-> ServerCwd] : a \in CliArgvs}
    \cup {[argv |-> << <<"-f">>, a >>, cwd |-> OtherCwd] : a \in {SampleArg, SamplePath}}

\* the command server.js hands to exec
command ==
  << <<"npm">>, <<"run">>, <<"init-demo">>, <<"--silent">>, <<"--">>,
     <<"-f">>, <<"sample.txt">> >>

\* npm run <script> -- args: the words after "--" go to the script
scriptArgv(cmd) ==
  IF \E i \in 1..Len(cmd) : cmd[i] = <<"--">>
  THEN LET i == CHOOSE i \in 1..Len(cmd) : cmd[i] = <<"--">> /\ \A j \in 1..(i - 1) : cmd[j] # <<"--">>
       IN SubSeq(cmd, i + 1, Len(cmd))
  ELSE <<>>

\* program.option('-f, --file <path>').parse(process.argv); program.opts().file
opts(argv) ==
  IF \E i \in 1..(Len(argv) - 1) : argv[i] \in {<<"-f">>, <<"--file">>}
  THEN LET i == CHOOSE i \in 1..(Len(argv) - 1) : argv[i] \in {<<"-f">>, <<"--file">>}
       IN argv[i + 1]
  ELSE NoFlag

isAbsolute(p) == Len(p) > 0 /\ p[1] = "/"

\* path.resolve(process.cwd(), options.file)
resolve(cwd, p) ==
  IF isAbsolute(p) THEN p
  ELSE IF p = <<>> THEN cwd
  ELSE cwd \o <<"/">> \o p

\* ------------------------------------------------------------- file system
Absent == [kind |-> "absent"]
File(c, r) == [kind |-> "file", content |-> c, readable |-> r]
\* what an unreadable file holds is never seen: one such file is enough
FileStates == {Absent, File(<<>>, FALSE)} \cup {File(c, TRUE) : c \in Contents}

VARIABLES
  sample,     \* state of the file at SamplePath; no other file exists
  color,      \* whether chalk emits colour codes in this environment
  proc,       \* the init-demo.js processes, by pid
  req,        \* the GET / requests, by request id
  serverLog   \* what server.js wrote to its console

vars == <<sample, color, proc, req, serverLog>>

stat(path) == IF path = SamplePath THEN sample ELSE Absent

\* fs.existsSync(filePath)
existsSync(path) == stat(path).kind = "file"

\* decoding a buffer as 'utf8': invalid bytes become U+FFFD
utf8(content) ==
  [i \in 1..Len(content) |-> IF content[i] = BadByte THEN Replacement ELSE content[i]]

ENOENT(path) == <<"ENOENT: no such file or directory, open '">> \o path \o <<"'">>
EACCES(path) == <<"EACCES: permission denied, open '">> \o path \o <<"'">>

\* fs.readFile(filePath, 'utf8', cb): the (err, data) handed to the callback
readFile(path) ==
  LET f == stat(path)
  IN IF f.kind = "absent" THEN [err |-> TRUE, message |-> ENOENT(path), data |-> <<>>]
     ELSE IF ~f.readable THEN [err |-> TRUE, message |-> EACCES(path), data |-> <<>>]
     ELSE [err |-> FALSE, message |-> <<>>, data |-> utf8(f.content)]

\* -------------------------------------------------------------- formatting
\* chalk.red(text)
red(text) == IF color THEN <<"\\x1b[31m">> \o text \o <<"\\x1b[39m">> ELSE text

\* console.log / console.error: the text followed by a newline
println(text) == text \o <<NL>>

NoFileMessage ==
  <<"Error: No file path provided. Use -f <path> to specify the file.">>
NotFoundMessage(filePath) ==
  <<"Error: File not found at path \"">> \o filePath \o <<"\"">>
ReadErrorMessage(message) == <<"Error reading file: ">> \o message

\* --------------------------------------------------------------- processes
Terminal == {"Success", "FailMissingArgument", "FailNotFound", "FailReadError"}

\* opened: what the read found when it opened the file, once it has
\* unlinkAt: (history) the step the process was at when the file was deleted
NotOpened == [err |-> FALSE, message |-> <<>>, data |-> <<>>]

NoProc ==
  [pc |-> "unborn", parent |-> 0, file |-> NoFlag, cwd |-> <<>>, filePath |-> <<>>,
   stdout |-> <<>>, stderr |-> <<>>, exitCode |-> -1, nExists |-> 0, nReads |-> 0,
   opened |-> NotOpened, unlinkAt |-> "never"]

\* the smallest pid not yet used
FreePid == CHOOSE p \in Pids : proc[p].pc = "unborn" /\ \A q \in Pids : q < p => proc[q].pc # "unborn"
HasFreePid == \E p \in Pids : proc[p].pc = "unborn"

\* a new node process running init-demo.js, options parsed
started(parent, argv, cwd) ==
  [NoProc EXCEPT !.pc = "ValidateArgument", !.parent = parent, !.file = opts(argv), !.cwd = cwd]

Init ==
  /\ sample \in FileStates
  /\ color \in BOOLEAN
  /\ proc = [p \in Pids |-> NoProc]
  /\ req = [r \in Reqs |-> [st |-> "new", child |-> 0, responses |-> <<>>]]
  /\ serverLog = <<>>

\* a user runs `node init-demo.js [-f file]` in directory cwd
CliRun(argv, cwd) ==
  /\ HasFreePid
  /\ proc' = [proc EXCEPT ![FreePid] = started(0, argv, cwd)]
  /\ UNCHANGED <<sample, color, req, serverLog>>

\* (mutant) only an absent flag is rejected, an empty value passes
ValidateArgument_undefinedOnly(p) ==
  /\ proc[p].pc = "ValidateArgument"
  /\ IF proc[p].file = NoFlag
     THEN proc' = [proc EXCEPT ![p].pc = "FailMissingArgument",
                               ![p].stderr = @ \o println(red(NoFileMessage)),
                               ![p].exitCode = 1]
     ELSE proc' = [proc EXCEPT ![p].pc = "ResolvePath"]
  /\ UNCHANGED <<sample, color, req, serverLog>>

\* if (!options.file) { console.error(...); process.exit(1); }
ValidateArgument(p) ==
  /\ proc[p].pc = "ValidateArgument"
  /\ IF proc[p].file = NoFlag \/ proc[p].file = <<>>
     THEN proc' = [proc EXCEPT ![p].pc = "FailMissingArgument",
                               ![p].stderr = @ \o println(red(NoFileMessage)),
                               ![p].exitCode = 1]
     ELSE proc' = [proc EXCEPT ![p].pc = "ResolvePath"]
  /\ UNCHANGED <<sample, color, req, serverLog>>

\* const filePath = path.resolve(process.cwd(), options.file)
ResolvePath(p) ==
  /\ proc[p].pc = "ResolvePath"
  /\ proc' = [proc EXCEPT ![p].pc = "CheckExistence",
                          ![p].filePath = resolve(proc[p].cwd, proc[p].file)]
  /\ UNCHANGED <<sample, color, req, serverLog>>

\* (mutant) the message names the argument as given, not the resolved path
CheckExistence_rawArg(p) ==
  /\ proc[p].pc = "CheckExistence"
  /\ IF ~existsSync(proc[p].filePath)
     THEN proc' = [proc EXCEPT ![p].pc = "FailNotFound",
                               ![p].nExists = @ + 1,
                               ![p].stderr = @ \o println(red(NotFoundMessage(proc[p].file))),
                               ![p].exitCode = 1]
     ELSE proc' = [proc EXCEPT ![p].pc = "ReadFile", ![p].nExists = @ + 1]
  /\ UNCHANGED <<sample, color, req, serverLog>>

\* if (!fs.existsSync(filePath)) { console.error(...); process.exit(1); }
CheckExistence(p) ==
  /\ proc[p].pc = "CheckExistence"
  /\ IF ~existsSync(proc[p].filePath)
     THEN proc' = [proc EXCEPT ![p].pc = "FailNotFound",
                               ![p].nExists = @ + 1,
                               ![p].stderr = @ \o println(red(NotFoundMessage(proc[p].filePath))),
                               ![p].exitCode = 1]
     ELSE proc' = [proc EXCEPT ![p].pc = "ReadFile", ![p].nExists = @ + 1]
  /\ UNCHANGED <<sample, color, req, serverLog>>

\* fs.readFile(filePath, 'utf8', callback): the read is started
ReadFile(p) ==
  /\ proc[p].pc = "ReadFile"
  /\ proc' = [proc EXCEPT ![p].pc = "Reading", ![p].nReads = @ + 1]
  /\ UNCHANGED <<sample, color, req, serverLog>>

\* The read opens the file: from here on it holds the file itself, and what
\* it reads no longer depends on the path.  (A read whose open is not seen as
\* a step of its own opens the file within ReadCallback.)
Open(p) ==
  /\ proc[p].pc = "Reading"
  /\ proc' = [proc EXCEPT ![p].pc = "Opened", ![p].opened = readFile(proc[p].filePath)]
  /\ UNCHANGED <<sample, color, req, serverLog>>

\* (mutant) on a first read error the callback goes back to the existence
\* check
ReadCallback_retry(p) ==
  /\ proc[p].pc \in {"Reading", "Opened"}
  /\ LET r == IF proc[p].pc = "Opened" THEN proc[p].opened ELSE readFile(proc[p].filePath)
     IN IF r.err /\ proc[p].nReads < 2
        THEN proc' = [proc EXCEPT ![p].pc = "CheckExistence"]
        ELSE IF r.err
        THEN proc' = [proc EXCEPT ![p].pc = "FailReadError",
                                  ![p].stderr = @ \o println(red(ReadErrorMessage(r.message))),
                                  ![p].exitCode = 1]
        ELSE proc' = [proc EXCEPT ![p].pc = "Success",
                                  ![p].stdout = @ \o println(r.data),
                                  ![p].exitCode = 0]
  /\ UNCHANGED <<sample, color, req, serverLog>>

\* (mutant) the error branch does not exit: the callback goes on to print data
ReadCallback_noExit(p) ==
  /\ proc[p].pc \in {"Reading", "Opened"}
  /\ LET r == IF proc[p].pc = "Opened" THEN proc[p].opened ELSE readFile(proc[p].filePath)
     IN IF r.err
        THEN proc' = [proc EXCEPT ![p].pc = "FailReadError",
                                  ![p].stderr = @ \o println(red(ReadErrorMessage(r.message))),
                                  ![p].stdout = @ \o println(<<"undefined">>),
                                  ![p].exitCode = 0]
        ELSE proc' = [proc EXCEPT ![p].pc = "Success",
                                  ![p].stdout = @ \o println(r.data),
                                  ![p].exitCode = 0]
  /\ UNCHANGED <<sample, color, req, serverLog>>

\* the read completes and the callback runs with what the open found; with
\* nothing left to do the process then ends with status 0
ReadCallback(p) ==
  /\ proc[p].pc \in {"Reading", "Opened"}
  /\ LET r == IF proc[p].pc = "Opened" THEN proc[p].opened ELSE readFile(proc[p].filePath)
     IN IF r.err
        THEN proc' = [proc EXCEPT ![p].pc = "FailReadError",
                                  ![p].stderr = @ \o println(red(ReadErrorMessage(r.message))),
                                  ![p].exitCode = 1]
        ELSE proc' = [proc EXCEPT ![p].pc = "Success",
                                  ![p].stdout = @ \o println(r.data),
                                  ![p].exitCode = 0]
  /\ UNCHANGED <<sample, color, req, serverLog>>

\* ------------------------------------------------------------------ server
\* (mutant) only a failed launch counts as an error
error_launchOnly(p) == proc[p].pc = "SpawnFailure"

\* exec's error argument: set when the child could not be launched or
\* ended with a status other than 0
error(p) == proc[p].pc = "SpawnFailure" \/ proc[p].exitCode # 0

ErrorEnvelope(stderr) ==
  [status |-> "error",
   error |-> [message |-> "npm script execution failed", details |-> stderr]]

SuccessEnvelope(stdout) ==
  [status |-> "success", data |-> [output |-> stdout]]

\* res.status(code).json(body)
Response(code, body) == [code |-> code, body |-> body]

\* app.get('/', ...): the handler builds the command and calls exec, which
\* either launches the child in the server's directory or fails to
HandleGet(r, launched) ==
  /\ req[r].st = "new"
  /\ HasFreePid
  /\ proc' = [proc EXCEPT ![FreePid] =
                IF launched THEN started(r, scriptArgv(command), ServerCwd)
                ELSE [NoProc EXCEPT !.pc = "SpawnFailure", !.parent = r]]
  /\ req' = [req EXCEPT ![r].st = "pending", ![r].child = FreePid]
  /\ UNCHANGED <<sample, color, serverLog>>

\* (mutant) the output is appended to a buffer shared by all requests
ExecCallback_sharedBuffer(r) ==
  /\ req[r].st = "pending"
  /\ LET p == req[r].child
         buffer == IF serverLog = <<>> THEN <<>> ELSE serverLog[Len(serverLog)].text
         stdout == buffer \o proc[p].stdout
         stderr == buffer \o proc[p].stderr
     IN /\ proc[p].pc \in Terminal \cup {"SpawnFailure"}
        /\ IF error(p)
           THEN /\ serverLog' = Append(serverLog, [stream |-> "stderr", text |-> stderr])
                /\ req' = [req EXCEPT ![r].st = "done",
                             ![r].responses = Append(@, Response(500, ErrorEnvelope(stderr)))]
           ELSE /\ serverLog' = Append(serverLog, [stream |-> "stdout", text |-> stdout])
                /\ req' = [req EXCEPT ![r].st = "done",
                             ![r].responses = Append(@, Response(200, SuccessEnvelope(stdout)))]
  /\ UNCHANGED <<sample, color, proc>>

\* (mutant) the callback of a request runs with the result of any child
ExecCallback_anyChild(r) ==
  /\ req[r].st = "pending"
  /\ \E p \in Pids :
       LET stdout == proc[p].stdout
           stderr == proc[p].stderr
       IN /\ proc[p].parent # 0
          /\ proc[p].pc \in Terminal \cup {"SpawnFailure"}
          /\ IF error(p)
             THEN /\ serverLog' = Append(serverLog, [stream |-> "stderr", text |-> stderr])
                  /\ req' = [req EXCEPT ![r].st = "done",
                               ![r].responses = Append(@, Response(500, ErrorEnvelope(stderr)))]
             ELSE /\ serverLog' = Append(serverLog, [stream |-> "stdout", text |-> stdout])
                  /\ req' = [req EXCEPT ![r].st = "done",
                               ![r].responses = Append(@, Response(200, SuccessEnvelope(stdout)))]
  /\ UNCHANGED <<sample, color, proc>>

\* (mutant) the callback tests stderr instead of error
ExecCallback_onStderr(r) ==
  /\ req[r].st = "pending"
  /\ LET p == req[r].child
         stdout == proc[p].stdout
         stderr == proc[p].stderr
     IN /\ proc[p].pc \in Terminal \cup {"SpawnFailure"}
        /\ IF stderr # <<>>
           THEN /\ serverLog' = Append(serverLog, [stream |-> "stderr", text |-> stderr])
                /\ req' = [req EXCEPT ![r].st = "done",
                             ![r].responses = Append(@, Response(500, ErrorEnvelope(stderr)))]
           ELSE /\ serverLog' = Append(serverLog, [stream |-> "stdout", text |-> stdout])
                /\ req' = [req EXCEPT ![r].st = "done",
                             ![r].responses = Append(@, Response(200, SuccessEnvelope(stdout)))]
  /\ UNCHANGED <<sample, color, proc>>

\* (mutant) the response is sent without waiting for the child to end
ExecCallback_noWait(r) ==
  /\ req[r].st = "pending"
  /\ LET p == req[r].child
         stdout == proc[p].stdout
         stderr == proc[p].stderr
     IN IF error(p)
        THEN /\ serverLog' = Append(serverLog, [stream |-> "stderr", text |-> stderr])
             /\ req' = [req EXCEPT ![r].st = "done",
                          ![r].responses = Append(@, Response(500, ErrorEnvelope(stderr)))]
        ELSE /\ serverLog' = Append(serverLog, [stream |-> "stdout", text |-> stdout])
             /\ req' = [req EXCEPT ![r].st = "done",
                          ![r].responses = Append(@, Response(200, SuccessEnvelope(stdout)))]
  /\ UNCHANGED <<sample, color, proc>>

\* exec's callback (error, stdout, stderr), run once the child has ended
ExecCallback(r) ==
  /\ req[r].st = "pending"
  /\ LET p == req[r].child
         stdout == proc[p].stdout
         stderr == proc[p].stderr
     IN /\ proc[p].pc \in Terminal \cup {"SpawnFailure"}
        /\ IF error(p)
           THEN /\ serverLog' = Append(serverLog, [stream |-> "stderr", text |-> stderr])
                /\ req' = [req EXCEPT ![r].st = "done",
                             ![r].responses = Append(@, Response(500, ErrorEnvelope(stderr)))]
           ELSE /\ serverLog' = Append(serverLog, [stream |-> "stdout", text |-> stdout])
                /\ req' = [req EXCEPT ![r].st = "done",
                             ![r].responses = Append(@, Response(200, SuccessEnvelope(stdout)))]
  /\ UNCHANGED <<sample, color, proc>>

\* one step of process p
Step(p) ==
  ValidateArgument(p) \/ ResolvePath(p) \/ CheckExistence(p) \/ ReadFile(p) \/ ReadCallback(p)

Next ==
  \/ \E i \in CliRuns : CliRun(i.argv, i.cwd)
  \/ \E p \in Pids : Step(p)
  \/ \E r \in Reqs, launched \in BOOLEAN : HandleGet(r, launched)
  \/ \E r \in Reqs : ExecCallback(r)

Spec == Init /\ [][Next]_vars

\* the server and its children alone
ServerNext ==
  \/ \E p \in Pids : Step(p)
  \/ \E r \in Reqs, launched \in BOOLEAN : HandleGet(r, launched)
  \/ \E r \in Reqs : ExecCallback(r)

\* Node runs exec's callback once the child has ended; nothing makes a child
\* end, so no fairness is put on the steps of the processes
FairSpec == Init /\ [][ServerNext]_vars /\ \A r \in Reqs : WF_vars(ExecCallback(r))

\* init-demo.js run from a shell alone
CliNext ==
  \/ \E i \in CliRuns : CliRun(i.argv, i.cwd)
  \/ \E p \in Pids : Step(p)

\* another process deletes the sample file; each init-demo process notes the
\* step it was at
Unlink ==
  /\ sample.kind = "file"
  /\ sample' = Absent
  /\ proc' = [p \in Pids |-> [proc[p] EXCEPT !.unlinkAt = proc[p].pc]]
  /\ UNCHANGED <<color, req, serverLog>>

\* init-demo.js run from a shell while the sample file may be deleted
RaceNext ==
  \/ \E i \in CliRuns : CliRun(i.argv, i.cwd)
  \/ \E p \in Pids : Step(p)
  \/ \E p \in Pids : Open(p)
  \/ Unlink

RaceSpec == Init /\ [][RaceNext]_vars

\* a node process that is not blocked runs its script to the end
RunSpec == Init /\ [][CliNext]_vars /\ \A p \in Pids : WF_vars(Step(p))
\* ================================================================== claims
\* a process that was launched and ran init-demo.js
Ran(p) == proc[p].pc \notin {"unborn", "SpawnFailure"}
Ended(p) == proc[p].pc \in Terminal
GivenFile(p) == proc[p].file # NoFlag /\ proc[p].file # <<>>

\* the absolute path the file argument of p stands for
Target(p) ==
  IF proc[p].file[1] = "/" THEN proc[p].file
  ELSE proc[p].cwd \o <<"/">> \o proc[p].file

TargetState(p) == IF Target(p) = SamplePath THEN sample ELSE Absent
TargetReadable(p) == TargetState(p).kind = "file" /\ TargetState(p).readable

\* C1 (as stated): a process given -f P for an existing readable file P ends
\* with exit status 0 and its standard output is exactly the content of P.
C1_ExactContent ==
  \A p \in Pids :
    (Ran(p) /\ GivenFile(p) /\ Ended(p) /\ TargetReadable(p))
      => /\ proc[p].exitCode = 0
         /\ proc[p].stdout = TargetState(p).content

\* C2 (as stated): when the sample file exists and is readable, a launched
\* GET / is answered 200 with {status: "success", data: {output: C}}, C being
\* exactly the content of the sample file.
C2_SampleOutput ==
  \A r \in Reqs :
    (req[r].st = "done" /\ Ran(req[r].child) /\ sample.kind = "file" /\ sample.readable)
      => req[r].responses =
           << [code |-> 200,
               body |-> [status |-> "success", data |-> [output |-> sample.content]]] >>

SampleUnavailable == sample.kind = "absent" \/ ~sample.readable

\* C3 (as stated): when the sample file is absent or unreadable, GET / is
\* answered 500 with {status: "error", error: {message: "script execution
\* failed", details: S}}, S being the child's standard error.
C3_ScriptExecutionFailed ==
  \A r \in Reqs :
    (req[r].st = "done" /\ SampleUnavailable)
      => req[r].responses =
           << [code |-> 500,
               body |-> [status |-> "error",
                         error |-> [message |-> "script execution failed",
                                    details |-> proc[req[r].child].stderr]]] >>

\* C3 (amended): when the sample file is absent or unreadable, GET / is
\* answered 500 with {status: "error", error: {message: "npm script execution
\* failed", details: S}}, S being the standard error captured from the child,
\* and the envelope has no data field.
C3_NpmScriptExecutionFailed ==
  \A r \in Reqs :
    (req[r].st = "done" /\ SampleUnavailable)
      => /\ Len(req[r].responses) = 1
         /\ LET res == req[r].responses[1]
            IN /\ res.code = 500
               /\ DOMAIN res.body = {"status", "error"}
               /\ res.body.status = "error"
               /\ res.body.error.message = "npm script execution failed"
               /\ res.body.error.details = proc[req[r].child].stderr
               /\ Ran(req[r].child) => res.body.error.details # <<>>

C3_Witness ==
  \E r \in Reqs :
    /\ req[r].st = "done" /\ sample.kind = "absent"
    /\ proc[req[r].child].pc = "FailNotFound"
    /\ Contains(req[r].responses[1].body.error.details, SamplePath)

\* C4: a process given -f P for a path P that does not exist ends with a
\* non-zero exit status and a message on standard error that contains the
\* absolute path of P; it writes nothing to standard output and never starts
\* the read.
C4_NotFound ==
  \A p \in Pids :
    (Ran(p) /\ GivenFile(p) /\ TargetState(p).kind = "absent")
      => /\ proc[p].stdout = <<>>
         /\ proc[p].nReads = 0
         /\ proc[p].pc \in {"ValidateArgument", "ResolvePath", "CheckExistence", "FailNotFound"}
         /\ proc[p].pc = "FailNotFound"
              => /\ proc[p].exitCode # 0
                 /\ Contains(proc[p].stderr, Target(p))

C4_Witness ==
  \E p \in Pids :
    /\ proc[p].pc = "FailNotFound" /\ proc[p].file = SampleArg
    /\ proc[p].cwd = OtherCwd /\ sample.kind = "file"
    /\ Contains(proc[p].stderr, <<"/", "tmp", "/", "sample.txt">>)

\* C5: a process run without a file argument (no -f, or an empty value) ends
\* with a non-zero exit status, and at no point of any execution has it made
\* a filesystem operation (existence check or read).
C5_MissingArgument ==
  \A p \in Pids :
    (Ran(p) /\ ~GivenFile(p))
      => /\ proc[p].nExists = 0 /\ proc[p].nReads = 0
         /\ proc[p].pc \in {"ValidateArgument", "FailMissingArgument"}
         /\ proc[p].pc = "FailMissingArgument"
              => proc[p].exitCode # 0 /\ proc[p].stderr # <<>>

C5_Witness ==
  \E p \in Pids :
    /\ proc[p].pc = "FailMissingArgument" /\ proc[p].file = <<>>
    /\ proc[p].exitCode = 1
Answered(r) == req[r].st = "done"
ChildOver(r) == req[r].child \in Pids /\ proc[req[r].child].pc \in Terminal \cup {"SpawnFailure"}

ChildrenOf(r) == {p \in Pids : proc[p].pc # "unborn" /\ proc[p].parent = r}

\* the response the result of process p calls for
BuiltFrom(p) ==
  IF proc[p].pc = "SpawnFailure" \/ proc[p].exitCode # 0
  THEN [code |-> 500,
        body |-> [status |-> "error",
                  error |-> [message |-> "npm script execution failed",
                             details |-> proc[p].stderr]]]
  ELSE [code |-> 200,
        body |-> [status |-> "success", data |-> [output |-> proc[p].stdout]]]

\* C7: under any interleaving each GET / request spawns exactly one child of
\* its own, and its response is built from the exit status, stdout and stderr
\* of that child only.
C7_OwnChild ==
  \A r \in Reqs :
    /\ req[r].st = "new" => ChildrenOf(r) = {}
    /\ req[r].st # "new" => ChildrenOf(r) = {req[r].child}
    /\ \A r2 \in Reqs : (r2 # r /\ req[r].st # "new" /\ req[r2].st # "new")
                           => req[r].child # req[r2].child
    /\ Answered(r) => \A p \in ChildrenOf(r) : req[r].responses = <<BuiltFrom(p)>>

\* the second request was answered first, and the two answers differ
C7_Witness ==
  /\ Answered(1) /\ Answered(2)
  /\ req[1].child < req[2].child
  /\ req[1].responses[1].code = 200 /\ req[2].responses[1].code = 500
  /\ serverLog[1].stream = "stderr"

\* C8: the handler answers 200 with the whole captured stdout exactly when
\* the child ended with status zero, and 500 with the error envelope exactly
\* when it ended non-zero or could not be launched; status and error.message
\* are the same for every kind of failure.
C8_ZeroOrNot ==
  \A r \in Reqs :
    req[r].responses # <<>> =>
      LET p == req[r].child
          res == req[r].responses[1]
      IN /\ res.code \in {200, 500}
         /\ res.code = 200 <=> (Ran(p) /\ proc[p].exitCode = 0)
         /\ res.code = 500 <=> (proc[p].pc = "SpawnFailure" \/ proc[p].exitCode # 0)
         /\ res.code = 200 =>
              res.body = [status |-> "success", data |-> [output |-> proc[p].stdout]]
         /\ res.code = 500 =>
              /\ res.body.status = "error"
              /\ res.body.error.message = "npm script execution failed"
              /\ DOMAIN res.body = {"status", "error"}

C8_Witness ==
  \E r \in Reqs :
    /\ Answered(r) /\ proc[req[r].child].pc = "FailReadError"
    /\ req[r].responses[1].code = 500
    /\ Contains(req[r].responses[1].body.error.details, EACCES(SamplePath))

\* C9: a GET / request is answered only once its child has ended or failed
\* to launch, and at most once; once the child has ended the request does
\* get its response.
C9_AnsweredAfterChild ==
  /\ [](\A r \in Reqs :
          /\ Len(req[r].responses) <= 1
          /\ Answered(r) <=> Len(req[r].responses) = 1
          /\ req[r].responses # <<>> => ChildOver(r))
  /\ \A r \in Reqs : (req[r].st = "pending" /\ ChildOver(r)) ~> (Len(req[r].responses) = 1)

C9_Witness ==
  \E r \in Reqs :
    /\ Answered(r) /\ proc[req[r].child].pc = "Success"
    /\ Len(req[r].responses) = 1
    /\ \E r2 \in Reqs : req[r2].st = "pending" /\ proc[req[r2].child].pc = "Reading"

Edges ==
  { <<"unborn", "ValidateArgument">>, <<"unborn", "SpawnFailure">>,
    <<"ValidateArgument", "FailMissingArgument">>, <<"ValidateArgument", "ResolvePath">>,
    <<"ResolvePath", "CheckExistence">>,
    <<"CheckExistence", "FailNotFound">>, <<"CheckExistence", "ReadFile">>,
    <<"ReadFile", "Reading">>,
    <<"Reading", "FailReadError">>, <<"Reading", "Success">> }

\* C10: an init-demo process goes through ValidateArgument, ResolvePath,
\* CheckExistence and ReadFile in that order and ends in exactly one of
\* Fail(MissingArgument), Fail(NotFound), Fail(ReadError) and Success, where
\* nothing changes any more; Success has exit code 0 and text on standard
\* output only, every Fail has exit code 1 and text on standard error only.
C10_StateMachine ==
  /\ [](\A p \in Pids :
          /\ proc[p].pc = "Success"
               => proc[p].exitCode = 0 /\ proc[p].stdout # <<>> /\ proc[p].stderr = <<>>
          /\ proc[p].pc \in Terminal \ {"Success"}
               => proc[p].exitCode = 1 /\ proc[p].stderr # <<>> /\ proc[p].stdout = <<>>
          /\ proc[p].pc \notin Terminal
               => proc[p].exitCode = -1 /\ proc[p].stderr = <<>> /\ proc[p].stdout = <<>>)
  /\ [][\A p \in Pids :
          proc'[p] # proc[p] => <<proc[p].pc, proc'[p].pc>> \in Edges]_vars
  /\ \A p \in Pids : Ran(p) ~> Ended(p)

C10_Witness ==
  \E p \in Pids :
    /\ proc[p].pc = "FailReadError" /\ proc[p].exitCode = 1
    /\ proc[p].stdout = <<>> /\ proc[p].nReads = 1
\* the file was deleted while p was at one of the given steps; the steps of
\* the read are reached only after the existence check has found the file
UnlinkedIn(p, steps) == proc[p].unlinkAt \in steps

RaceOutcome(p) ==
  /\ proc[p].nExists <= 1 /\ proc[p].nReads <= 1
  /\ proc[p].pc # "Success"
  /\ proc[p].pc # "FailNotFound"
  /\ Ended(p) => /\ proc[p].pc = "FailReadError"
                 /\ proc[p].exitCode # 0
                 /\ proc[p].stderr # <<>>
                 /\ proc[p].stdout = <<>>
                 /\ proc[p].nExists = 1 /\ proc[p].nReads = 1

\* C11 (as stated): when the file is deleted after the existence check of a
\* process returned true and before its read completes, the process ends in
\* Fail(ReadError) with a non-zero exit status, a message on standard error
\* and empty standard output, never in Success, and neither repeats the
\* check nor retries the read.
C11_DeletedBeforeReadCompletes ==
  \A p \in Pids : UnlinkedIn(p, {"ReadFile", "Reading", "Opened"}) => RaceOutcome(p)

\* C11 (amended): when the file is deleted after the existence check of a
\* process returned true and before its read has opened the file, the
\* process ends in Fail(ReadError) with a non-zero exit status, the read's
\* "no such file" message on standard error and empty standard output, never
\* in Success, and neither repeats the check nor retries the read.
C11_DeletedBeforeOpen ==
  \A p \in Pids :
    UnlinkedIn(p, {"ReadFile", "Reading"})
      => /\ RaceOutcome(p)
         /\ Ended(p) => Contains(proc[p].stderr, ENOENT(Target(p)))

C11_Witness ==
  \E p \in Pids :
    /\ proc[p].unlinkAt = "ReadFile" /\ proc[p].nExists = 1
    /\ proc[p].pc = "FailReadError" /\ proc[p].exitCode = 1
    /\ proc[p].stdout = <<>> /\ proc[p].nReads = 1
    /\ sample.kind = "absent"
====
